---- MODULE Spec2Model ----
(***************************************************************************)
(* Model of laughAnalysis.py (Gailbot-3): the laughter pipeline            *)
(*   waveform -> getFeatureList -> model.predict_proba -> lowpass          *)
(*            -> getLaughterInstances -> transcribeLaugh                   *)
(*                                                                         *)
(* Representation.                                                         *)
(*  - Python lists are sequences; Python index k is TLA+ index k+1.        *)
(*  - A float time is an exact rational <<num, den>> (den > 0), compared   *)
(*    by cross multiplication; frame f becomes <<f, 100>> (f / 100.).      *)
(*  - A probability is an integer level 0..MaxProb; only the order of      *)
(*    probabilities and the threshold matters to the code.                 *)
(*  - A row of the MFCC / delta matrix is <<kind, frame>>: librosa's       *)
(*    numbers are opaque, the frame a row was computed from is what the    *)
(*    windowing code moves around.  A padding row is <<"zero", 0>>.        *)
(***************************************************************************)
EXTENDS Integers, Sequences, FiniteSets, TLC

VARIABLES
    pc,           \* control position
    jsonList,     \* the caller's transcript list, mutated in place
    entryList,    \* history: jsonList as it was when the call was entered
    frames,       \* number of frames librosa yields for the loaded timeSeries
    window_size,  \* getFeatureList's window_size argument
    featureList,  \* result of getFeatureList
    probs,        \* classifier output / getLaughterInstances' probs argument
    filtered,     \* lowpass output
    threshold,    \* threshold argument
    minLength,    \* minLength argument
    instances,    \* result of getLaughterInstances / transcribeLaugh's argument
    raised        \* "none", or the exception that ended the call

vars == <<pc, jsonList, entryList, frames, window_size, featureList, probs,
          filtered, threshold, minLength, instances, raised>>

----------------------------------------------------------------------------
(* Bounds of the model.                                                    *)

MaxFeatureFrames == 7
MaxWindow == 6
MaxProbFrames == 7
MaxProb == 1
MaxMinLength == 2
MaxEntries == 2
MaxStart == 1
MaxInstances == 2
MaxPipeFrames == 2
MaxPipeEntries == 1

----------------------------------------------------------------------------
(* Python list primitives.                                                 *)

PyMin(a, b) == IF a < b THEN a ELSE b
PyMax(a, b) == IF a > b THEN a ELSE b

\* The position a slice bound denotes in a list of length n: a negative
\* bound counts from the end, and the result is clamped to 0..n.
SliceBound(k, n) == IF k < 0 THEN PyMax(k + n, 0) ELSE PyMin(k, n)

\* s[lo:hi]
PySlice(s, lo, hi) ==
    LET a == SliceBound(lo, Len(s))
        b == SliceBound(hi, Len(s))
    IN  IF b <= a THEN <<>> ELSE SubSeq(s, a + 1, b)

\* range(lo, hi) as the list of its values
PyRange(lo, hi) == IF hi <= lo THEN <<>> ELSE [k \in 1..(hi - lo) |-> lo + k - 1]

\* whether s[k] raises IndexError
IndexError(s, k) == ~(k \in -Len(s)..(Len(s) - 1))

----------------------------------------------------------------------------
(* Feature extraction.                                                     *)

MfccRow(f) == <<"mfcc", f>>
DeltaRow(f) == <<"delta", f>>
ZeroRow == <<"zero", 0>>

\* computeMfccFeatures: one row per frame, in frame order
computeMfccFeatures(F) == [k \in 1..F |-> MfccRow(k - 1)]

\* computeDeltaFeatures: one row per row of mfccFeatures, aligned with it
computeDeltaFeatures(mfccFeatures) ==
    [k \in 1..Len(mfccFeatures) |-> DeltaRow(mfccFeatures[k][2])]

\* numpy.zeros((window_size, width)): window_size all-zero rows
zeroPad(ws) == [k \in 1..ws |-> ZeroRow]

\* numpy.vstack([pad, features, pad])
padded(features, ws) == zeroPad(ws) \o features \o zeroPad(ws)

\* formatFeatures: the two windows, flattened and appended
formatFeatures(mfccFeatures, deltaFeatures, index, ws) ==
    PySlice(mfccFeatures, index - ws, index + ws)
        \o PySlice(deltaFeatures, index - ws, index + ws)

\* Mutants of the loop range of getFeatureList.
FeatureIndicesUnshifted(F, ws) == PyRange(0, F)
FeatureIndicesShort(F, ws) == PyRange(ws, F)

\* range(window_size, len(mfccFeatures) + window_size)
FeatureIndices(F, ws) == PyRange(ws, F + ws)

getFeatureList(F, ws) ==
    LET mfccFeatures == computeMfccFeatures(F)
        deltaFeatures == computeDeltaFeatures(mfccFeatures)
        paddedMFCCFeatures == padded(mfccFeatures, ws)
        paddedDeltaFeatures == padded(deltaFeatures, ws)
        idx == FeatureIndices(Len(mfccFeatures), ws)
    IN  [k \in 1..Len(idx) |->
            formatFeatures(paddedMFCCFeatures, paddedDeltaFeatures, idx[k], ws)]

----------------------------------------------------------------------------
(* Instance segmentation.                                                  *)

FRAME_RATE == 100

\* Exact rationals <<num, den>> standing for Python floats.
RatLess(a, b) == a[1] * b[2] < b[1] * a[2]
RatLeq(a, b) == a[1] * b[2] <= b[1] * a[2]

\* frame / 100.
FrameToTime(f) == <<f, FRAME_RATE>>

frame_span_to_time_span(frame_span) ==
    <<FrameToTime(frame_span[1]), FrameToTime(frame_span[2])>>

\* (instance_list[0], instance_list[-1])
collapse_to_start_and_end_frame(instance_list) ==
    <<instance_list[1], instance_list[Len(instance_list)]>>

\* numpy.min of a non-empty array
NumpyMin(s) ==
    CHOOSE m \in {s[k] : k \in 1..Len(s)} : \A k \in 1..Len(s) : m <= s[k]

\* Mutant of the loop body: the closed run is not reset.
ScanStepNoReset(st, ps, i, thr) ==
    IF NumpyMin(PySlice(ps, i, i + 1)) > thr
    THEN [st EXCEPT !.current_list = Append(@, i)]
    ELSE IF Len(st.current_list) > 0
         THEN [st EXCEPT !.instances = Append(@, st.current_list)]
         ELSE st

\* One iteration of the for loop of getLaughterInstances, at frame i.
ScanStep(st, ps, i, thr) ==
    IF NumpyMin(PySlice(ps, i, i + 1)) > thr
    THEN [st EXCEPT !.current_list = Append(@, i)]
    ELSE IF Len(st.current_list) > 0
         THEN [instances |-> Append(st.instances, st.current_list),
               current_list |-> <<>>]
         ELSE st

\* for i in range(len(probs)), from iteration i on
RECURSIVE Scan(_, _, _, _)
Scan(st, ps, i, thr) ==
    IF i >= Len(ps) THEN st ELSE Scan(ScanStep(st, ps, i, thr), ps, i + 1, thr)

\* Mutant of the length filter: a run of exactly minLength frames is kept.
KeepRunAtLeast(run, minLen) == Len(run) >= minLen

\* if len(i) > minLength
KeepRun(run, minLen) == Len(run) > minLen

\* [x for x in s if KeepRun(x)]
RECURSIVE FilterRuns(_, _)
FilterRuns(runs, minLen) ==
    IF runs = <<>> THEN <<>>
    ELSE (IF KeepRun(Head(runs), minLen) THEN <<Head(runs)>> ELSE <<>>)
             \o FilterRuns(Tail(runs), minLen)

getLaughterInstances(ps, thr, minLen) ==
    LET st == Scan([instances |-> <<>>, current_list |-> <<>>], ps, 0, thr)
        kept == FilterRuns(st.instances, minLen)
    IN  [k \in 1..Len(kept) |->
            frame_span_to_time_span(collapse_to_start_and_end_frame(kept[k]))]

----------------------------------------------------------------------------
(* Transcript merge.                                                       *)

LAUGHTER == "[^ LAUGHTER ]"

\* Mutant: the speaker id is read from the header entry.
SpeakerOfHeader(list) == list[1][1]

\* jsonList[1][0]
SpeakerOf(list) == list[2][1]

\* [jsonList[1][0], instance[0], instance[1], "[^ LAUGHTER ]"]
NewEntry(list, instance) == <<SpeakerOf(list), instance[1], instance[2], LAUGHTER>>

\* Mutant: the speaker id is looked up once, before the loop.
NewInstRaisesEager(list, insts) == IndexError(list, 1)

\* Whether the first loop raises: jsonList[1] is evaluated once per instance.
NewInstRaises(list, insts) == insts # <<>> /\ IndexError(list, 1)

\* The first loop: newInst
NewInst(list, insts) == [k \in 1..Len(insts) |-> NewEntry(list, insts[k])]

\* operator.itemgetter(1)
StartOf(entry) == entry[2]

\* Insert x behind every element whose key is not greater than x's key.
RECURSIVE InsertByStart(_, _)
InsertByStart(x, s) ==
    IF s = <<>> THEN <<x>>
    ELSE IF RatLess(StartOf(x), StartOf(Head(s)))
         THEN <<x>> \o s
         ELSE <<Head(s)>> \o InsertByStart(x, Tail(s))

\* sorted(s, key = operator.itemgetter(1)): ascending and stable
RECURSIVE SortedByStart(_)
SortedByStart(s) ==
    IF s = <<>> THEN <<>>
    ELSE InsertByStart(s[Len(s)], SortedByStart(SubSeq(s, 1, Len(s) - 1)))

\* s reversed
Reversed(s) == [k \in 1..Len(s) |-> s[Len(s) + 1 - k]]

\* Mutants of the sort: left out, and descending.
SortTailOmitted(list) == list
SortTailDescending(list) ==
    PySlice(list, 0, 1) \o Reversed(SortedByStart(PySlice(list, 1, Len(list))))

\* jsonList[1:] = sorted(jsonList[1:], key = operator.itemgetter(1))
SortTail(list) == PySlice(list, 0, 1) \o SortedByStart(PySlice(list, 1, Len(list)))

\* Mutant: each entry is appended with an empty speaker id, which is filled
\* in from jsonList[1][0] after the append.
transcribeLaughAppendFirst(list, insts) ==
    LET first == Append(list, <<"", insts[1][1], insts[1][2], LAUGHTER>>)
    IN  IF insts = <<>> THEN [raised |-> "none", jsonList |-> SortTail(list)]
        ELSE IF IndexError(first, 1)
             THEN [raised |-> "IndexError", jsonList |-> first]
             ELSE [raised |-> "none",
                   jsonList |-> SortTail(list \o
                       [k \in 1..Len(insts) |->
                           <<first[2][1], insts[k][1], insts[k][2], LAUGHTER>>])]

\* transcribeLaugh: the exception it ends with ("none": it returns) and the
\* list object as the call leaves it.
transcribeLaugh(list, insts) ==
    IF NewInstRaises(list, insts)
    THEN [raised |-> "IndexError", jsonList |-> list]
    ELSE [raised |-> "none", jsonList |-> SortTail(list \o NewInst(list, insts))]

----------------------------------------------------------------------------
(* Input domains.                                                          *)

SeqsUpTo(S, n) == UNION {[1..k -> S] : k \in 0..n}

Levels == 0..MaxProb

Speakers == {"spk1", "spk2"}

\* jsonList[0]: the header entry, never a timed utterance
HEADER == <<"@Begin", <<0, 1>>, <<0, 1>>, "header">>

\* Utterances [speaker, start, end, text], times in whole seconds
EntryPool ==
    {<<spk, <<s, 1>>, <<s + 1, 1>>, "hi">> : spk \in Speakers, s \in 0..MaxStart}

\* Transcripts of at most n utterances, in any order; also the empty list
Transcripts(n) == {<<>>} \cup {<<HEADER>> \o t : t \in SeqsUpTo(EntryPool, n)}

\* Instances handed to transcribeLaugh, as frame spans
InstanceFrameSpans == {<<0, 5>>, <<3, 8>>, <<100, 105>>, <<150, 155>>}
InstancePool == {frame_span_to_time_span(fs) : fs \in InstanceFrameSpans}

\* getFeatureList's default window_size
DEFAULT_WINDOW_SIZE == 37

----------------------------------------------------------------------------
(* segmentLaugh: the pipeline, one action per stage.  The loader, the      *)
(* classifier and the filter are external: each either raises or returns   *)
(* any value of the right shape.                                           *)

Init ==
    /\ pc = "load"
    /\ jsonList \in Transcripts(MaxPipeEntries)
    /\ entryList = jsonList
    /\ threshold \in Levels
    /\ minLength \in 0..MaxMinLength
    /\ window_size = DEFAULT_WINDOW_SIZE
    /\ frames = 0 /\ featureList = <<>> /\ probs = <<>> /\ filtered = <<>>
    /\ instances = <<>> /\ raised = "none"

Fail(exc) ==
    /\ pc' = "failed"
    /\ raised' = exc
    /\ UNCHANGED <<jsonList, entryList, frames, window_size, featureList, probs,
                   filtered, threshold, minLength, instances>>

\* timeSeries, samplingRate = librosa.load(audioFile, sr = AUDIO_SAMPLE_RATE)
LoadAudio ==
    /\ pc = "load"
    /\ \E F \in 1..MaxPipeFrames : frames' = F
    /\ pc' = "getFeatureList"
    /\ UNCHANGED <<jsonList, entryList, window_size, featureList, probs, filtered,
                   threshold, minLength, instances, raised>>

LoadAudioRaises == pc = "load" /\ Fail("AudioLoadError")

\* featureList = getFeatureList(timeSeries, samplingRate)
GetFeatureList ==
    /\ pc = "getFeatureList"
    /\ featureList' = getFeatureList(frames, window_size)
    /\ pc' = "predict"
    /\ UNCHANGED <<jsonList, entryList, frames, window_size, probs, filtered,
                   threshold, minLength, instances, raised>>

GetFeatureListRaises == pc = "getFeatureList" /\ Fail("FeatureError")

\* probs = model.predict_proba(featureList).reshape(len(probs))
Predict ==
    /\ pc = "predict"
    /\ \E ps \in [1..Len(featureList) -> Levels] : probs' = ps
    /\ pc' = "lowpass"
    /\ UNCHANGED <<jsonList, entryList, frames, window_size, featureList, filtered,
                   threshold, minLength, instances, raised>>

PredictRaises == pc = "predict" /\ Fail("InferenceError")

\* filtered = lowpass(probs); probs is not read again and is dropped here
Lowpass ==
    /\ pc = "lowpass"
    /\ \E fs \in [1..Len(probs) -> Levels] : filtered' = fs
    /\ probs' = <<>>
    /\ pc' = "getLaughterInstances"
    /\ UNCHANGED <<jsonList, entryList, frames, window_size, featureList,
                   threshold, minLength, instances, raised>>

LowpassRaises == pc = "lowpass" /\ Fail("FilterError")

\* instances = getLaughterInstances(filtered, threshold, minLength)
Segment ==
    /\ pc = "getLaughterInstances"
    /\ instances' = getLaughterInstances(filtered, threshold, minLength)
    /\ pc' = "transcribeLaugh"
    /\ UNCHANGED <<jsonList, entryList, frames, window_size, featureList, probs,
                   filtered, threshold, minLength, raised>>

\* jsonList = transcribeLaugh(jsonList, instances); return jsonList
Merge ==
    /\ pc = "transcribeLaugh"
    /\ LET r == transcribeLaugh(jsonList, instances)
       IN  /\ jsonList' = r.jsonList
           /\ raised' = r.raised
           /\ pc' = IF r.raised = "none" THEN "done" ELSE "failed"
    /\ UNCHANGED <<entryList, frames, window_size, featureList, probs, filtered,
                   threshold, minLength, instances>>

Next ==
    \/ LoadAudio \/ LoadAudioRaises
    \/ GetFeatureList \/ GetFeatureListRaises
    \/ Predict \/ PredictRaises
    \/ Lowpass \/ LowpassRaises
    \/ Segment
    \/ Merge

Spec == Init /\ [][Next]_vars

----------------------------------------------------------------------------
(* getFeatureList applied to every frame count and window size.            *)

InitFeatures ==
    /\ pc = "getFeatureList.call"
    /\ frames \in 0..MaxFeatureFrames
    /\ window_size \in 0..MaxWindow
    /\ jsonList = <<>> /\ entryList = <<>> /\ featureList = <<>> /\ probs = <<>>
    /\ filtered = <<>> /\ threshold = 0 /\ minLength = 0 /\ instances = <<>>
    /\ raised = "none"

CallGetFeatureList ==
    /\ pc = "getFeatureList.call"
    /\ featureList' = getFeatureList(frames, window_size)
    /\ pc' = "getFeatureList.return"
    /\ UNCHANGED <<jsonList, entryList, frames, window_size, probs, filtered,
                   threshold, minLength, instances, raised>>

NextFeatures == CallGetFeatureList

SpecFeatures == InitFeatures /\ [][NextFeatures]_vars

----------------------------------------------------------------------------
(* getLaughterInstances applied to every probability sequence.             *)

InitInstances ==
    /\ pc = "getLaughterInstances.call"
    /\ probs \in SeqsUpTo(Levels, MaxProbFrames)
    /\ threshold \in Levels
    /\ minLength \in 0..MaxMinLength
    /\ jsonList = <<>> /\ entryList = <<>> /\ frames = 0 /\ window_size = 0
    /\ featureList = <<>> /\ filtered = <<>> /\ instances = <<>>
    /\ raised = "none"

CallGetLaughterInstances ==
    /\ pc = "getLaughterInstances.call"
    /\ instances' = getLaughterInstances(probs, threshold, minLength)
    /\ pc' = "getLaughterInstances.return"
    /\ UNCHANGED <<jsonList, entryList, frames, window_size, featureList, probs,
                   filtered, threshold, minLength, raised>>

NextInstances == CallGetLaughterInstances

SpecInstances == InitInstances /\ [][NextInstances]_vars

----------------------------------------------------------------------------
(* transcribeLaugh applied to every transcript and instance list.          *)

InitMerge ==
    /\ pc = "transcribeLaugh.call"
    /\ jsonList \in Transcripts(MaxEntries)
    /\ entryList = jsonList
    /\ instances \in SeqsUpTo(InstancePool, MaxInstances)
    /\ frames = 0 /\ window_size = 0 /\ featureList = <<>> /\ probs = <<>>
    /\ filtered = <<>> /\ threshold = 0 /\ minLength = 0 /\ raised = "none"

CallTranscribeLaugh ==
    /\ pc = "transcribeLaugh.call"
    /\ LET r == transcribeLaugh(jsonList, instances)
       IN  /\ jsonList' = r.jsonList
           /\ raised' = r.raised
    /\ pc' = "transcribeLaugh.return"
    /\ UNCHANGED <<entryList, frames, window_size, featureList, probs, filtered,
                   threshold, minLength, instances>>

NextMerge == CallTranscribeLaugh

SpecMerge == InitMerge /\ [][NextMerge]_vars

----------------------------------------------------------------------------
(* Properties.                                                             *)

\* Number of positions of s holding x
Count(s, x) == Cardinality({k \in 1..Len(s) : s[k] = x})

\* s[1:]
Rest(s) == IF s = <<>> THEN <<>> ELSE Tail(s)

\* Ascending by start time
AscendingByStart(s) ==
    \A k \in 1..(Len(s) - 1) : RatLeq(StartOf(s[k]), StartOf(s[k + 1]))

MergeReturned == pc = "transcribeLaugh.return"

\* C1: merging a transcript of at least 2 entries with any instance list
\* returns, leaves entry 0 in place and unchanged, and yields
\* len(T) - 1 + len(I) non-header entries: every original non-header entry as
\* often as before, one laughter entry per instance, ascending by start time.
C1_MergeOrder ==
    (MergeReturned /\ Len(entryList) >= 2) =>
        /\ raised = "none"
        /\ jsonList[1] = entryList[1]
        /\ Len(jsonList) - 1 = Len(entryList) - 1 + Len(instances)
        /\ \A e \in EntryPool : Count(Rest(jsonList), e) = Count(Rest(entryList), e)
        /\ Cardinality({k \in 2..Len(jsonList) : jsonList[k][4] = LAUGHTER})
               = Len(instances)
        /\ AscendingByStart(Rest(jsonList))

\* C1 witness: two instances merged into two utterances, and the sort moved
\* entries (the result is not the plain concatenation).
C1_Witness ==
    /\ MergeReturned /\ raised = "none"
    /\ Len(entryList) = 3 /\ Len(instances) = 2
    /\ \E k \in 2..3 : jsonList[k] # entryList[k]

\* C5: every instance is in the merged transcript as an entry with the
\* speaker id of the input's entry 1, the instance's start and end and the
\* laughter text, once per occurrence of the instance.
C5_SpeakerOfEntryOne ==
    (MergeReturned /\ raised = "none" /\ Len(entryList) >= 2) =>
        \A k \in 1..Len(instances) :
            Count(jsonList,
                  <<entryList[2][1], instances[k][1], instances[k][2], LAUGHTER>>)
                = Count(instances, instances[k])

\* C5 witness: after the merge index 1 holds an entry of another speaker than
\* the one the laughter entries were given.
C5_Witness ==
    /\ MergeReturned /\ raised = "none"
    /\ Len(entryList) >= 2 /\ Len(instances) >= 1
    /\ jsonList[2][1] # entryList[2][1]

\* C6 as claimed: with fewer than 2 entries the merge raises, whatever the
\* instance list.
C6_AlwaysRaises ==
    (MergeReturned /\ Len(entryList) < 2) => raised # "none"

\* C6 amended: with fewer than 2 entries the merge raises (IndexError, the
\* list untouched) exactly when the instance list is non-empty; with an
\* empty instance list it returns the transcript unchanged.
C6_RaisesIffInstances ==
    (MergeReturned /\ Len(entryList) < 2) =>
        /\ (instances # <<>>) => (raised = "IndexError" /\ jsonList = entryList)
        /\ (instances = <<>>) => (raised = "none" /\ jsonList = entryList)

\* C6 witness: a header-only transcript merged with no instance returns.
C6_Witness ==
    /\ MergeReturned /\ Len(entryList) = 1 /\ instances = <<>> /\ raised = "none"

Spk1Hi == <<"spk1", <<0, 1>>, <<1, 1>>, "hi">>
Spk1Laugh == <<"spk1", <<3, 100>>, <<8, 100>>, LAUGHTER>>

Scenario9 ==
    /\ MergeReturned
    /\ entryList = <<HEADER, Spk1Hi>>
    /\ instances = <<<<<<3, 100>>, <<8, 100>>>>>>

\* C9 as claimed: the laughter entry (0.03) is placed before the utterance
\* that starts at 0.0.
C9_LaughterFirst == Scenario9 => jsonList = <<HEADER, Spk1Laugh, Spk1Hi>>

\* C9 amended: the merge yields [header, ("spk1", 0.0, 1.0, "hi"),
\* ("spk1", 0.03, 0.08, "[^ LAUGHTER ]")]: the utterance that starts at 0.0
\* stays before the laughter entry that starts at 0.03.
C9_UtteranceFirst ==
    Scenario9 => (raised = "none" /\ jsonList = <<HEADER, Spk1Hi, Spk1Laugh>>)

\* C9 witness: the scenario's merge has run.
C9_Witness == Scenario9 /\ raised = "none" /\ Len(jsonList) = 3

----------------------------------------------------------------------------

InstancesReturned == pc = "getLaughterInstances.return"

\* Number of frames of the run of above-threshold frames that ends ps
RECURSIVE TrailingRun(_, _)
TrailingRun(ps, thr) ==
    IF ps = <<>> \/ ps[Len(ps)] <= thr THEN 0
    ELSE 1 + TrailingRun(SubSeq(ps, 1, Len(ps) - 1), thr)

\* C2: a run still open at the last frame is closed and evaluated like any
\* other: if the sequence ends with more than minLength frames above the
\* threshold, an instance for that final run is returned.
C2_FinalRunReported ==
    LET L == TrailingRun(probs, threshold)
    IN  (InstancesReturned /\ L > 0 /\ L > minLength) =>
            \E k \in 1..Len(instances) :
                instances[k] = <<FrameToTime(Len(probs) - L),
                                 FrameToTime(Len(probs) - 1)>>

\* C3: the instances are strictly ordered and disjoint: start <= end within
\* an instance, and end(k) < start(k+1).
C3_OrderedDisjoint ==
    InstancesReturned =>
        \A k \in 1..Len(instances) :
            /\ RatLeq(instances[k][1], instances[k][2])
            /\ k < Len(instances) => RatLess(instances[k][2], instances[k + 1][1])

\* C3 witness: two instances returned, one of them a single frame.
C3_Witness ==
    /\ InstancesReturned /\ Len(instances) >= 2
    /\ \E k \in 1..Len(instances) : instances[k][1] = instances[k][2]

\* Frame a..b (0-based) is a closed run of ps: every frame above thr, the
\* frame before (if any) and the frame after not above thr.
ClosedRun(ps, thr, a, b) ==
    /\ \A f \in a..b : ps[f + 1] > thr
    /\ a > 0 => ps[a] <= thr
    /\ b + 1 < Len(ps) /\ ps[b + 2] <= thr

\* C4: every instance is first/100, last/100 of a run of consecutive frames,
\* all above the threshold, of more than minLength frames.
C4_RunAboveThreshold ==
    InstancesReturned =>
        \A k \in 1..Len(instances) :
            \E a \in 0..(Len(probs) - 1) : \E b \in a..(Len(probs) - 1) :
                /\ instances[k] = <<<<a, 100>>, <<b, 100>>>>
                /\ b - a + 1 > minLength
                /\ ClosedRun(probs, threshold, a, b)

\* C4 witness: one run is returned while a run of exactly minLength frames,
\* ended by a frame equal to the threshold, is discarded.
C4_Witness ==
    /\ InstancesReturned /\ Len(instances) = 1 /\ minLength >= 1
    /\ \E a \in 0..(Len(probs) - 1) : \E b \in a..(Len(probs) - 1) :
          /\ b - a + 1 = minLength
          /\ ClosedRun(probs, threshold, a, b)
          /\ probs[b + 2] = threshold

----------------------------------------------------------------------------

FeaturesReturned == pc = "getFeatureList.return"

\* C8: getFeatureList returns one row per frame whatever the window size,
\* and row k is the row of frame k: the middle of each of its two windows is
\* frame k's MFCC row and frame k's delta row.
C8_RowPerFrame ==
    FeaturesReturned =>
        /\ Len(featureList) = frames
        /\ \A k \in 0..(frames - 1) :
              window_size >= 1 =>
                  /\ Len(featureList[k + 1]) = 4 * window_size
                  /\ featureList[k + 1][window_size + 1] = MfccRow(k)
                  /\ featureList[k + 1][3 * window_size + 1] = DeltaRow(k)

\* C8 witness: several frames with a window, and several frames without one.
C8_Witness ==
    /\ FeaturesReturned /\ frames >= 3 /\ window_size >= 2
    /\ Len(featureList) = frames

\* The window of 2*ws rows around frame k: rows of frames outside 0..F-1 are
\* padding rows.
ExpectedWindow(kind, k, F, ws) ==
    [j \in 1..(2 * ws) |->
        IF (k - ws + j - 1) \in 0..(F - 1)
        THEN <<kind, k - ws + j - 1>>
        ELSE ZeroRow]

\* C10: for every frame both windows hold exactly 2*window_size rows, taken
\* from frames k-window_size .. k+window_size-1 in order, with all-zero rows
\* where that range leaves the original frames.
C10_FullWindows ==
    FeaturesReturned =>
        \A k \in 0..(frames - 1) :
            /\ k + 1 <= Len(featureList)
            /\ featureList[k + 1] =
                   ExpectedWindow("mfcc", k, frames, window_size)
                       \o ExpectedWindow("delta", k, frames, window_size)

\* C10 witness: a signal shorter than the window, so the first and the last
\* frame's windows both reach into the padding.
C10_Witness ==
    /\ FeaturesReturned /\ frames >= 2 /\ window_size > frames
    /\ featureList[1][1] = ZeroRow
    /\ featureList[frames][2 * window_size] = ZeroRow

----------------------------------------------------------------------------

\* C7: when segmentLaugh fails, at whatever stage, the caller's transcript is
\* as it was on entry.
C7_FailureLeavesTranscript == (pc = "failed") => jsonList = entryList

\* C7 witness: the merge itself failed, with instances to add.
C7_Witness ==
    /\ pc = "failed" /\ raised = "IndexError" /\ instances # <<>>

====
